---- MODULE Spec2Model ----
(***************************************************************************)
(* Model of the voice session component App (src/unnamed/part_002):        *)
(* the React state and refs of the component, the sessions opened by       *)
(* startSession, the transport callbacks (onopen, onmessage, onerror,      *)
(* onclose), the microphone frame callback and stopSession.                *)
(*                                                                         *)
(* Text is a sequence of fragment tokens (JavaScript string concatenation  *)
(* is sequence concatenation, the empty string is << >>).  Times are       *)
(* natural numbers of clock ticks.  A session is one invocation of         *)
(* startSession; its closure variables (stream, audioContextIn,            *)
(* audioContextOut, sessionPromise, the isMuted it captured) are the       *)
(* fields of sess[s].                                                      *)
(***************************************************************************)
EXTENDS Integers, Sequences, FiniteSets, TLC

\* ------------------------------------------------------------------ bounds
MaxSessions == 2    \* startSession invocations explored
MaxMsgs == 2        \* inbound messages delivered over a run
MaxCiteMsgs == 3    \* inbound messages delivered over a run of citation messages
MaxDur == 2         \* longest audio chunk, in ticks
MaxClock == 2       \* ticks each output clock may advance
MaxSuspended == 2   \* onmessage handlers waiting in decodeAudioData at once

SessionIds == 1 .. MaxSessions
NoSession == 0      \* a null ref / null state value

VARIABLES
  isActive,                       \* useState(false)
  isMuted,                        \* useState(false)
  entries,                        \* useState<TranscriptionEntry[]>([])
  groundingSources,               \* useState<GroundingSource[]>([])
  audioStream,                    \* useState<MediaStream | null>(null)
  error,                          \* useState<string | null>(null)
  entriesQueue,                   \* setEntries updaters React has not applied yet
  nextStartTimeRef,               \* useRef(0)
  audioContextOutRef,             \* useRef<AudioContext | null>(null)
  audioContextInRef,              \* useRef<AudioContext | null>(null)
  audioSourcesRef,                \* useRef(new Set())
  sessionPromiseRef,              \* useRef<Promise | null>(null)
  currentInputTranscriptionRef,   \* useRef('')
  currentOutputTranscriptionRef,  \* useRef('')
  sess,                           \* per startSession invocation: closure and resources
  suspended,                      \* onmessage handlers suspended at the await
  nMsg,                           \* messages delivered so far
  prevChunk,                      \* history: last chunk scheduled since the cursor was reset
  turnLog,                        \* history: buffers seen by each turn-complete
  lastEvent                       \* history: the handler that ran in the last step

vars == << isActive, isMuted, entries, groundingSources, audioStream, error,
           entriesQueue, nextStartTimeRef, audioContextOutRef, audioContextInRef,
           audioSourcesRef, sessionPromiseRef, currentInputTranscriptionRef,
           currentOutputTranscriptionRef, sess, suspended, nMsg, prevChunk,
           turnLog, lastEvent >>

\* ------------------------------------------------------------------ values
Max(a, b) == IF a >= b THEN a ELSE b

Uris == {"A", "B"}
Titles == {"", "X", "Z"}          \* "" is a missing (falsy) chunk.web.title

\* groundingChunks: a chunk either has a web part (uri, title) or has none
NoWebChunk == [web |-> FALSE, uri |-> "A", title |-> ""]
WebChunks == [web : {TRUE}, uri : Uris, title : Titles]

\* The citation lists delivered: up to two chunks, so also a URI twice in
\* one list, a missing title, a chunk without a web part.
DeliveredChunkLists ==
  {<<c>> : c \in WebChunks \cup {NoWebChunk}}
  \cup {<<c, d>> : c \in WebChunks \cup {NoWebChunk}, d \in WebChunks}

Fragments == {"Hel", "lo"}       \* of the user's speech
Replies == {"Hi"}                \* of the assistant's speech
NoText == << >>

\* LiveServerMessage.serverContent, the fields onmessage reads.
\*   audio: 0 when there is no inlineData, else the decoded buffer's duration
\*   inT / outT: << >> when the transcription field is absent, else <<fragment>>
\*   chunks: << >> when there is no groundingMetadata.groundingChunks
Message(audio, interrupted, inT, outT, turnComplete, chunks) ==
  [audio |-> audio, interrupted |-> interrupted, inT |-> inT, outT |-> outT,
   turnComplete |-> turnComplete, chunks |-> chunks]

InputFields == {NoText} \cup {<<f>> : f \in Fragments}
OutputFields == {NoText} \cup {<<f>> : f \in Replies}

\* The messages the runs draw from.  Each specification below delivers one
\* family: audio payloads with the interruption flag, transcription fields
\* with the turn-complete flag (with or without an audio payload), or
\* citation lists.
AudioMessages ==
  {Message(a, i, NoText, NoText, FALSE, << >>) : a \in 0 .. MaxDur, i \in BOOLEAN}

TextMessages ==
  {Message(a, FALSE, x, y, t, << >>) :
     a \in {0, 1}, x \in InputFields, y \in OutputFields, t \in BOOLEAN}

\* transcription fields and the turn-complete flag, without an audio payload
TurnMessages == {m \in TextMessages : m.audio = 0}

CiteMessages ==
  {Message(0, FALSE, NoText, NoText, FALSE, c) : c \in DeliveredChunkLists}

\* seq: of an interruption, the delivery number of its message
NoChunk == [kind |-> "none", start |-> 0, dur |-> 0, seq |-> 0]

\* History value after a handler no property below speaks about.
NoEvent == [op |-> "other", sess |-> NoSession]

Ev(op, s) == [op |-> op, sess |-> s]

UnusedSession ==
  [pc |-> "unused", muted |-> FALSE, stream |-> "none",
   ctxIn |-> "none", ctxOut |-> "none", closeIn |-> 0, closeOut |-> 0,
   conn |-> "none", resolved |-> FALSE, closeReq |-> FALSE,
   wired |-> FALSE, clock |-> 0]

\* ------------------------------------------------------------------ Init
Init ==
  /\ isActive = FALSE
  /\ isMuted = FALSE
  /\ entries = << >>
  /\ groundingSources = << >>
  /\ audioStream = NoSession
  /\ error = "none"
  /\ entriesQueue = << >>
  /\ nextStartTimeRef = 0
  /\ audioContextOutRef = NoSession
  /\ audioContextInRef = NoSession
  /\ audioSourcesRef = {}
  /\ sessionPromiseRef = NoSession
  /\ currentInputTranscriptionRef = << >>
  /\ currentOutputTranscriptionRef = << >>
  /\ sess = [s \in SessionIds |-> UnusedSession]
  /\ suspended = {}
  /\ nMsg = 0
  /\ prevChunk = NoChunk
  /\ turnLog = << >>
  /\ lastEvent = NoEvent

\* ------------------------------------------------------------------ stopSession
\* audioContext.close() through a ref: the context the ref holds is closed
\* (again, when it is closed already: the ref is never cleared).
CloseIn(r, s) ==
  IF s = audioContextInRef
    THEN [r EXCEPT !.ctxIn = "closed", !.closeIn = @ + 1]
    ELSE r

CloseOut(r, s) ==
  IF s = audioContextOutRef
    THEN [r EXCEPT !.ctxOut = "closed", !.closeOut = @ + 1]
    ELSE r

\* sessionPromiseRef.current?.then(session => session.close()): runs at once
\* on a fulfilled promise, and waits for the fulfilment otherwise.
CloseSession(r, s) ==
  IF s = sessionPromiseRef
    THEN IF r.resolved
           THEN [r EXCEPT !.conn = IF @ = "open" THEN "closing" ELSE @]
           ELSE [r EXCEPT !.closeReq = TRUE]
    ELSE r

\* The sessions after stopSession has run.
StopSess == [s \in SessionIds |-> CloseSession(CloseOut(CloseIn(sess[s], s), s), s)]

stopSession ==
  /\ isActive' = FALSE
  /\ audioStream' = NoSession
  /\ audioSourcesRef' = {}
  /\ sessionPromiseRef' = NoSession
  /\ UNCHANGED << audioContextInRef, audioContextOutRef >>

\* stopSession has no try block: when a release step throws (close() missing
\* or throwing on the context, stop() throwing on a playback handle), the
\* steps before it have run and the steps after it are skipped.
ThrowingSteps == {"closeIn", "closeOut", "stop"}

StopSessThrows(step) ==
  [s \in SessionIds |->
     IF step = "closeIn" THEN sess[s]
     ELSE IF step = "closeOut" THEN CloseIn(sess[s], s)
     ELSE CloseOut(CloseIn(sess[s], s), s)]

stopSessionThrows(step) ==
  /\ step = "closeIn" => audioContextInRef # NoSession
  /\ step = "closeOut" => audioContextOutRef # NoSession
  /\ step = "stop" => audioSourcesRef # {}
  /\ isActive' = FALSE
  /\ audioStream' = NoSession
  /\ sess' = StopSessThrows(step)
  /\ UNCHANGED << audioSourcesRef, sessionPromiseRef, audioContextInRef,
                  audioContextOutRef >>

\* ------------------------------------------------------------------ startSession
\* The start button is rendered while !isActive.  The invocation runs up to
\* the await of getUserMedia; isMuted is the value of the render that made
\* this startSession closure.
StartSession(s) ==
  /\ ~isActive
  /\ sess[s].pc = "unused"
  /\ \A t \in SessionIds : t < s => sess[t].pc # "unused"
  /\ error' = "none"
  /\ sess' = [sess EXCEPT ![s] = [@ EXCEPT !.pc = "getUserMedia", !.muted = isMuted]]
  /\ lastEvent' = NoEvent
  /\ UNCHANGED << isActive, isMuted, entries, groundingSources, audioStream,
                  entriesQueue, nextStartTimeRef, audioContextOutRef,
                  audioContextInRef, audioSourcesRef, sessionPromiseRef,
                  currentInputTranscriptionRef, currentOutputTranscriptionRef,
                  suspended, nMsg, prevChunk, turnLog >>

\* getUserMedia resolved: the rest of the try block up to the assignment of
\* sessionPromiseRef.
MicGranted(s) ==
  /\ sess[s].pc = "getUserMedia"
  /\ audioStream' = s
  /\ sess' = [sess EXCEPT ![s] = [@ EXCEPT !.pc = "running", !.stream = "live",
                                           !.ctxIn = "running", !.ctxOut = "running",
                                           !.conn = "connecting"]]
  /\ audioContextInRef' = s
  /\ audioContextOutRef' = s
  /\ nextStartTimeRef' = 0
  /\ sessionPromiseRef' = s
  /\ prevChunk' = NoChunk
  /\ lastEvent' = NoEvent
  /\ UNCHANGED << isActive, isMuted, entries, groundingSources, error, entriesQueue,
                  audioSourcesRef, currentInputTranscriptionRef,
                  currentOutputTranscriptionRef, suspended, nMsg, turnLog >>

\* getUserMedia rejected: the catch block.
MicDenied(s) ==
  /\ sess[s].pc = "getUserMedia"
  /\ error' = "mic"
  /\ sess' = [sess EXCEPT ![s] = [@ EXCEPT !.pc = "denied"]]
  /\ lastEvent' = Ev("denied", s)
  /\ UNCHANGED << isActive, isMuted, entries, groundingSources, audioStream,
                  entriesQueue, nextStartTimeRef, audioContextOutRef,
                  audioContextInRef, audioSourcesRef, sessionPromiseRef,
                  currentInputTranscriptionRef, currentOutputTranscriptionRef,
                  suspended, nMsg, prevChunk, turnLog >>

\* ------------------------------------------------------------------ onopen
\* createMediaStreamSource on a context stopSession closed already may throw
\* before setIsActive(true) is reached, depending on the browser: both
\* outcomes are explored.  The pending sessionPromise is fulfilled with the
\* open confirmation, which runs a close registered by stopSession.
OnOpen(s) ==
  /\ sess[s].conn = "connecting"
  /\ \E threw \in (IF sess[s].ctxIn = "closed" THEN BOOLEAN ELSE {FALSE}) :
       /\ isActive' = IF threw THEN isActive ELSE TRUE
       /\ sess' = [sess EXCEPT ![s] =
                     [@ EXCEPT !.wired = ~threw, !.resolved = TRUE,
                               !.conn = IF sess[s].closeReq THEN "closing" ELSE "open"]]
  /\ lastEvent' = NoEvent
  /\ UNCHANGED << isMuted, entries, groundingSources, audioStream, error,
                  entriesQueue, nextStartTimeRef, audioContextOutRef,
                  audioContextInRef, audioSourcesRef, sessionPromiseRef,
                  currentInputTranscriptionRef, currentOutputTranscriptionRef,
                  suspended, nMsg, prevChunk, turnLog >>

\* ------------------------------------------------------------------ onaudioprocess
\* The script processor of a running input context delivers a frame.  The
\* handler tests the isMuted its startSession closure captured.
FrameSent(s) == ~sess[s].muted

OnAudioProcess(s) ==
  /\ sess[s].wired
  /\ sess[s].ctxIn = "running"
  /\ lastEvent' = [op |-> "frame", sess |-> s, muted |-> isMuted,
                   sent |-> FrameSent(s), conn |-> sess[s].conn]
  /\ UNCHANGED << isActive, isMuted, entries, groundingSources, audioStream, error,
                  entriesQueue, nextStartTimeRef, audioContextOutRef,
                  audioContextInRef, audioSourcesRef, sessionPromiseRef,
                  currentInputTranscriptionRef, currentOutputTranscriptionRef,
                  sess, suspended, nMsg, prevChunk, turnLog >>

\* ------------------------------------------------------------------ citations
\* chunks.forEach: the web chunks, a missing title replaced.
RECURSIVE NewSources(_)
NewSources(chunks) ==
  IF chunks = << >> THEN << >>
  ELSE LET c == Head(chunks) IN
       (IF c.web
          THEN << [title |-> IF c.title = "" THEN "Untitled Source" ELSE c.title,
                   uri |-> c.uri] >>
          ELSE << >>) \o NewSources(Tail(chunks))

\* Map.prototype.set: a new key is appended in insertion order, a present key
\* keeps its place and takes the new value.
MapSetAppend(m, s) == Append(m, s)

MapSetMove(m, s) == SelectSeq(m, LAMBDA x : x.uri # s.uri) \o << s >>

MapSet(m, s) ==
  IF \E i \in DOMAIN m : m[i].uri = s.uri
    THEN [i \in DOMAIN m |-> IF m[i].uri = s.uri THEN s ELSE m[i]]
    ELSE Append(m, s)

RECURSIVE MapValuesLastSeen(_)
MapValuesLastSeen(combined) ==
  IF combined = << >> THEN << >>
  ELSE LET rest == MapValuesLastSeen(Tail(combined))
       IN IF \E i \in DOMAIN rest : rest[i].uri = Head(combined).uri
            THEN rest
            ELSE << Head(combined) >> \o rest

\* Array.from(new Map(combined.map(s => [s.uri, s])).values())
RECURSIVE MapValues(_)
MapValues(combined) ==
  IF combined = << >> THEN << >>
  ELSE MapSet(MapValues(SubSeq(combined, 1, Len(combined) - 1)),
              combined[Len(combined)])

MergeConcat(prev, newSources) == prev \o newSources

\* the setGroundingSources updater
MergeSources(prev, newSources) == MapValues(prev \o newSources)

\* ------------------------------------------------------------------ transcript
\* The setEntries updaters of one turn-complete, in call order.
TurnUpdatesAlways(inBuf, outBuf) == << "user", "assistant" >>

TurnUpdates(inBuf, outBuf) ==
  (IF inBuf # << >> THEN << "user" >> ELSE << >>)
  \o (IF outBuf # << >> THEN << "assistant" >> ELSE << >>)

\* An updater reads the ref when it runs: text is the buffer's value then.
RunUpdater(role, inBuf, outBuf) ==
  [role |-> role, text |-> IF role = "user" THEN inBuf ELSE outBuf]

RECURSIVE RunUpdaters(_, _, _, _)
RunUpdaters(prev, roles, inBuf, outBuf) ==
  IF roles = << >> THEN prev
  ELSE RunUpdaters(Append(prev, RunUpdater(Head(roles), inBuf, outBuf)),
                   Tail(roles), inBuf, outBuf)

\* How many of the updaters of one handler React may run inside the setEntries
\* call itself (synchronous legacy updates, or the eager computation on an
\* idle fiber); the others wait for the next render.
EagerCounts(roles) ==
  IF entriesQueue # << >> THEN {0} ELSE 0 .. Len(roles)

\* ------------------------------------------------------------------ onmessage
\* Playback scheduling: the start time of a chunk and the cursor after it.
StartAtNow(cursor, now) == now

StartAt(cursor, now) == Max(cursor, now)

CursorAtDuration(startAt, duration) == duration

CursorAfter(startAt, duration) == startAt + duration

\* Interruption: the active set and the cursor after the interruption block.
SourcesAfter(m, srcs) == IF m.interrupted THEN {} ELSE srcs

CursorKept(m, cursor) == cursor

CursorAfterInterruption(m, cursor) == IF m.interrupted THEN 0 ELSE cursor

\* The handler from "Handle Interruptions" to its end, entered with the
\* active set srcs and the cursor the audio block left.
Route(m, srcs, cursor) ==
  /\ audioSourcesRef' = SourcesAfter(m, srcs)
  /\ nextStartTimeRef' = CursorAfterInterruption(m, cursor)
  /\ LET inBuf == currentInputTranscriptionRef \o m.inT
         outBuf == currentOutputTranscriptionRef \o m.outT
         roles == TurnUpdates(inBuf, outBuf)
     IN IF m.turnComplete
          THEN /\ \E k \in EagerCounts(roles) :
                    /\ entries' = RunUpdaters(entries, SubSeq(roles, 1, k), inBuf, outBuf)
                    /\ entriesQueue' = entriesQueue \o SubSeq(roles, k + 1, Len(roles))
               /\ currentInputTranscriptionRef' = << >>
               /\ currentOutputTranscriptionRef' = << >>
               /\ turnLog' = RunUpdaters(turnLog, roles, inBuf, outBuf)
          ELSE /\ currentInputTranscriptionRef' = inBuf
               /\ currentOutputTranscriptionRef' = outBuf
               /\ UNCHANGED << entries, entriesQueue, turnLog >>
  /\ groundingSources' =
       IF NewSources(m.chunks) # << >>
         THEN MergeSources(groundingSources, NewSources(m.chunks))
         ELSE groundingSources

\* History: the handler of message m (delivered seq-th, to session s) ran to
\* its end; start is the start time of its chunk (-1 without one), now the
\* output clock then, cursor and prev the cursor and the last chunk before,
\* merged the sources it merged into the citation list sources.
MessageEvent(s, seq, m, start, now) ==
  [op |-> "message", sess |-> s, seq |-> seq, intr |-> m.interrupted,
   turn |-> m.turnComplete, start |-> start, clock |-> now,
   cursor |-> nextStartTimeRef, prev |-> prevChunk,
   merged |-> NewSources(m.chunks), sources |-> groundingSources]

\* The transport delivers a message to an open session.  With an audio payload
\* the handler stops at the await of decodeAudioData; without one it runs to
\* its end.
OnMessage(s, m) ==
  /\ sess[s].conn = "open"
  /\ nMsg' = nMsg + 1
  /\ IF m.audio # 0
       THEN /\ Cardinality(suspended) < MaxSuspended
            /\ suspended' = suspended \cup {[sess |-> s, seq |-> nMsg + 1, msg |-> m]}
            /\ lastEvent' = NoEvent
            /\ UNCHANGED << audioSourcesRef, nextStartTimeRef, entries, entriesQueue,
                            currentInputTranscriptionRef, currentOutputTranscriptionRef,
                            turnLog, groundingSources, prevChunk >>
       ELSE /\ Route(m, audioSourcesRef, nextStartTimeRef)
            /\ prevChunk' = IF m.interrupted
                              THEN [kind |-> "interrupted", start |-> nextStartTimeRef, dur |-> 0,
                                    seq |-> nMsg + 1]
                              ELSE prevChunk
            /\ lastEvent' = MessageEvent(s, nMsg + 1, m, -1, 0)
            /\ UNCHANGED suspended
  /\ UNCHANGED << isActive, isMuted, audioStream, error, audioContextOutRef,
                  audioContextInRef, sessionPromiseRef, sess >>

\* Decoding an audio payload is a suspension point: the handler waits until
\* the decode completes, and the decodes in flight complete in any order.
DecodeCompletes(h) == h \in suspended

\* decodeAudioData fulfilled: the handler h resumes, schedules the buffer on
\* the audioContextOut of its closure and runs to its end.
DecodeDone(h) ==
  /\ DecodeCompletes(h)
  /\ suspended' = suspended \ {h}
  /\ LET now == sess[h.sess].clock
         startAt == StartAt(nextStartTimeRef, now)
         cursor == CursorAfter(startAt, h.msg.audio)
         source == [sess |-> h.sess, seq |-> h.seq, start |-> startAt, dur |-> h.msg.audio]
     IN /\ Route(h.msg, audioSourcesRef \cup {source}, cursor)
        /\ prevChunk' = IF h.msg.interrupted
                          THEN [kind |-> "interrupted", start |-> cursor, dur |-> 0, seq |-> h.seq]
                          ELSE [kind |-> "chunk", start |-> startAt, dur |-> h.msg.audio, seq |-> 0]
        /\ lastEvent' = MessageEvent(h.sess, h.seq, h.msg, startAt, now)
  /\ UNCHANGED << isActive, isMuted, audioStream, error, audioContextOutRef,
                  audioContextInRef, sessionPromiseRef, sess, nMsg >>

\* decodeAudioData rejected (a malformed payload): the async handler ends there.
DecodeFail(h) ==
  /\ DecodeCompletes(h)
  /\ suspended' = suspended \ {h}
  /\ lastEvent' = [op |-> "decodeFail", sess |-> h.sess, intr |-> h.msg.interrupted,
                   turn |-> h.msg.turnComplete, text |-> h.msg.inT \o h.msg.outT]
  /\ UNCHANGED << isActive, isMuted, entries, groundingSources, audioStream, error,
                  entriesQueue, nextStartTimeRef, audioContextOutRef,
                  audioContextInRef, audioSourcesRef, sessionPromiseRef,
                  currentInputTranscriptionRef, currentOutputTranscriptionRef,
                  sess, nMsg, prevChunk, turnLog >>

\* React renders: the queued setEntries updaters run, in order.
Render ==
  /\ entriesQueue # << >>
  /\ entries' = RunUpdaters(entries, entriesQueue, currentInputTranscriptionRef,
                            currentOutputTranscriptionRef)
  /\ entriesQueue' = << >>
  /\ lastEvent' = NoEvent
  /\ UNCHANGED << isActive, isMuted, groundingSources, audioStream, error,
                  nextStartTimeRef, audioContextOutRef, audioContextInRef,
                  audioSourcesRef, sessionPromiseRef, currentInputTranscriptionRef,
                  currentOutputTranscriptionRef, sess, suspended, nMsg, prevChunk,
                  turnLog >>

\* ------------------------------------------------------------------ onerror, onclose
\* The transport reports an error on a connection that has not ended (pending,
\* open, or closing after session.close()); the connection has then failed
\* and its onclose follows.
OnError(s) ==
  /\ sess[s].conn \in {"connecting", "open", "closing"}
  /\ error' = "conn"
  /\ stopSession
  /\ sess' = [StopSess EXCEPT ![s] = [@ EXCEPT !.conn = "failed"]]
  /\ lastEvent' = Ev("error", s)
  /\ UNCHANGED << isMuted, entries, groundingSources, entriesQueue, nextStartTimeRef,
                  currentInputTranscriptionRef, currentOutputTranscriptionRef,
                  suspended, nMsg, prevChunk, turnLog >>

\* The connection closed: by the remote end, or after session.close() or an error.
OnClose(s) ==
  /\ sess[s].conn \in {"open", "closing", "failed"}
  /\ isActive' = FALSE
  /\ sess' = [sess EXCEPT ![s] = [@ EXCEPT !.conn = "closed"]]
  /\ lastEvent' = [op |-> "close", sess |-> s, remote |-> (sess[s].conn = "open")]
  /\ UNCHANGED << isMuted, entries, groundingSources, audioStream, error,
                  entriesQueue, nextStartTimeRef, audioContextOutRef,
                  audioContextInRef, audioSourcesRef, sessionPromiseRef,
                  currentInputTranscriptionRef, currentOutputTranscriptionRef,
                  suspended, nMsg, prevChunk, turnLog >>

\* ------------------------------------------------------------------ buttons
\* End Session, rendered while isActive.
StopButton ==
  /\ isActive
  /\ stopSession
  /\ sess' = StopSess
  /\ lastEvent' = Ev("stop", NoSession)
  /\ UNCHANGED << isMuted, entries, groundingSources, error, entriesQueue,
                  nextStartTimeRef, currentInputTranscriptionRef,
                  currentOutputTranscriptionRef, suspended, nMsg, prevChunk,
                  turnLog >>

\* End Session, with a release step of stopSession throwing.
StopButtonThrows ==
  /\ isActive
  /\ \E step \in ThrowingSteps :
       /\ stopSessionThrows(step)
       /\ lastEvent' = [op |-> "stopThrew", sess |-> sessionPromiseRef, step |-> step]
  /\ UNCHANGED << isMuted, entries, groundingSources, error, entriesQueue,
                  nextStartTimeRef, currentInputTranscriptionRef,
                  currentOutputTranscriptionRef, suspended, nMsg, prevChunk,
                  turnLog >>

\* The mute button, rendered while isActive: setIsMuted(!isMuted).
ToggleMute ==
  /\ isActive
  /\ isMuted' = ~isMuted
  /\ lastEvent' = NoEvent
  /\ UNCHANGED << isActive, entries, groundingSources, audioStream, error,
                  entriesQueue, nextStartTimeRef, audioContextOutRef,
                  audioContextInRef, audioSourcesRef, sessionPromiseRef,
                  currentInputTranscriptionRef, currentOutputTranscriptionRef,
                  sess, suspended, nMsg, prevChunk, turnLog >>

\* ------------------------------------------------------------------ output clock
\* Time passes: audioContextOut.currentTime of every running context advances.
Running == {s \in SessionIds : sess[s].ctxOut = "running"}

Tick ==
  /\ Running # {}
  /\ \A s \in Running : sess[s].clock < MaxClock
  /\ sess' = [s \in SessionIds |->
                IF s \in Running THEN [sess[s] EXCEPT !.clock = @ + 1] ELSE sess[s]]
  /\ lastEvent' = NoEvent
  /\ UNCHANGED << isActive, isMuted, entries, groundingSources, audioStream, error,
                  entriesQueue, nextStartTimeRef, audioContextOutRef,
                  audioContextInRef, audioSourcesRef, sessionPromiseRef,
                  currentInputTranscriptionRef, currentOutputTranscriptionRef,
                  suspended, nMsg, prevChunk, turnLog >>

\* source.onended: a chunk played to its end removes itself from the set.
OnEnded(src) ==
  /\ src \in audioSourcesRef
  /\ sess[src.sess].clock >= src.start + src.dur
  /\ audioSourcesRef' = audioSourcesRef \ {src}
  /\ lastEvent' = NoEvent
  /\ UNCHANGED << isActive, isMuted, entries, groundingSources, audioStream, error,
                  entriesQueue, nextStartTimeRef, audioContextOutRef,
                  audioContextInRef, sessionPromiseRef, currentInputTranscriptionRef,
                  currentOutputTranscriptionRef, sess, suspended, nMsg, prevChunk,
                  turnLog >>

\* ------------------------------------------------------------------ specifications
\* The lifecycle of session s: the start button and the transport's callbacks.
SessionLifecycle(s) ==
  \/ StartSession(s)
  \/ MicGranted(s)
  \/ MicDenied(s)
  \/ OnOpen(s)
  \/ OnError(s)
  \/ OnClose(s)

\* Decoding, the output clocks and the end of playback.
Playback ==
  \/ \E h \in suspended : DecodeDone(h)
  \/ \E h \in suspended : DecodeFail(h)
  \/ Tick
  \/ \E src \in audioSourcesRef : OnEnded(src)

AudioReply == Message(1, FALSE, NoText, NoText, FALSE, << >>)

\* Sessions, the microphone and audio replies.
Next ==
  \/ \E s \in SessionIds : SessionLifecycle(s)
  \/ StopButton
  \/ Playback
  \/ \E s \in SessionIds : OnAudioProcess(s)
  \/ ToggleMute
  \/ \E s \in SessionIds : nMsg < MaxMsgs /\ OnMessage(s, AudioReply)

Spec == Init /\ [][Next]_vars

\* Sessions and audio replies with interruptions.
NextAudio ==
  \/ \E s \in SessionIds : SessionLifecycle(s)
  \/ StopButton
  \/ Playback
  \/ \E s \in SessionIds, m \in AudioMessages : nMsg < MaxMsgs /\ OnMessage(s, m)

SpecAudio == Init /\ [][NextAudio]_vars

\* One session and audio replies with interruptions.
NextPlay ==
  \/ SessionLifecycle(1)
  \/ StopButton
  \/ Playback
  \/ \E m \in AudioMessages : nMsg < MaxMsgs /\ OnMessage(1, m)

SpecPlay == Init /\ [][NextPlay]_vars

\* One session and transcription messages.
NextText ==
  \/ SessionLifecycle(1)
  \/ StopButton
  \/ Playback
  \/ Render
  \/ \E m \in TextMessages : nMsg < MaxMsgs /\ OnMessage(1, m)

SpecText == Init /\ [][NextText]_vars

\* One session and citation messages.
NextCite ==
  \/ SessionLifecycle(1)
  \/ StopButton
  \/ \E m \in CiteMessages : nMsg < MaxCiteMsgs /\ OnMessage(1, m)

SpecCite == Init /\ [][NextCite]_vars

\* Sessions, the mute button and transcription messages.
NextTranscript ==
  \/ \E s \in SessionIds : SessionLifecycle(s)
  \/ StopButton
  \/ ToggleMute
  \/ Render
  \/ \E s \in SessionIds, m \in TurnMessages : nMsg < MaxMsgs /\ OnMessage(s, m)

SpecTranscript == Init /\ [][NextTranscript]_vars

\* The connections alone: sessions and End Session.  A pending connection
\* that stays pending is opened in the end (the promise settles), and a
\* connection that was closed by session.close() or has failed gets its
\* onclose; the remote end is not bound to close an open connection.
NextConn ==
  \/ \E s \in SessionIds : SessionLifecycle(s)
  \/ StopButton

CloseCompletes(s) == sess[s].conn \in {"closing", "failed"} /\ OnClose(s)

SpecConn ==
  /\ Init
  /\ [][NextConn]_vars
  /\ \A s \in SessionIds : WF_vars(OnOpen(s)) /\ WF_vars(CloseCompletes(s))

\* One session, audio replies, and End Session with a release step that throws.
NextTeardown ==
  \/ SessionLifecycle(1)
  \/ StopButton
  \/ StopButtonThrows
  \/ Playback
  \/ nMsg < MaxMsgs /\ OnMessage(1, AudioReply)

SpecTeardown == Init /\ [][NextTeardown]_vars

\* ------------------------------------------------------------------ properties
\* C1. Gapless scheduling: a chunk scheduled while the output clock is still
\* before the end of the previous chunk (the cursor), with no interruption
\* and no new session since that chunk, starts exactly where the previous
\* one ends: start[i+1] = start[i] + d[i].
GaplessScheduling ==
  ( /\ lastEvent.op = "message"
    /\ lastEvent.start >= 0
    /\ lastEvent.prev.kind = "chunk"
    /\ lastEvent.clock < lastEvent.cursor )
  => lastEvent.start = lastEvent.prev.start + lastEvent.prev.dur

\* A second chunk was scheduled back to back, after the clock had advanced.
GaplessWitness ==
  /\ lastEvent.op = "message"
  /\ lastEvent.prev.kind = "chunk"
  /\ lastEvent.clock > 0
  /\ lastEvent.clock < lastEvent.cursor
  /\ lastEvent.start = lastEvent.prev.start + lastEvent.prev.dur
  /\ Cardinality(audioSourcesRef) = 2

\* C2. Interruption reset: when the handler of a message with the
\* interruption flag has run, the active set is empty and the cursor is 0;
\* the next chunk scheduled starts at the current value of the output clock.
InterruptionReset ==
  /\ (lastEvent.op = "message" /\ lastEvent.intr)
       => (audioSourcesRef = {} /\ nextStartTimeRef = 0)
  /\ (lastEvent.op = "message" /\ lastEvent.start >= 0
        /\ lastEvent.prev.kind = "interrupted")
       => lastEvent.start = lastEvent.clock

\* The first chunk after an interruption started at the clock, before the
\* cursor the interruption had found.
InterruptionWitness ==
  /\ lastEvent.op = "message"
  /\ lastEvent.start >= 0
  /\ lastEvent.prev.kind = "interrupted"
  /\ lastEvent.start = lastEvent.clock
  /\ lastEvent.clock > 0
  /\ lastEvent.prev.start > lastEvent.start

\* C3. Turn aggregation: each turn-complete appends, for each role with a
\* non-empty buffer (user first), exactly one entry whose text is the
\* buffer's value when the turn-complete was handled; the buffers are empty
\* afterwards.  turnLog holds those entries: the transcript, with the
\* updates still queued, is turnLog.
TurnAggregation ==
  /\ Len(entries) + Len(entriesQueue) = Len(turnLog)
  /\ \A i \in 1 .. Len(entries) : i <= Len(turnLog) => entries[i] = turnLog[i]
  /\ (lastEvent.op = "message" /\ lastEvent.turn)
       => ( /\ currentInputTranscriptionRef = << >>
            /\ currentOutputTranscriptionRef = << >> )

\* C4. Dedup idempotence: merging a list again right after it was merged
\* leaves the citation list as it is, for the list just merged and for every
\* other list; merging a source whose URI is present leaves one entry for
\* that URI, with the new title, and keeps every entry with another URI.
SourceLists == {NewSources(c) : c \in DeliveredChunkLists}

Range(f) == {f[i] : i \in DOMAIN f}

DedupIdempotence ==
  /\ (lastEvent.op = "message" /\ lastEvent.merged # << >>)
       => MergeSources(groundingSources, lastEvent.merged) = groundingSources
  /\ \A l \in SourceLists :
       MergeSources(MergeSources(groundingSources, l), l)
         = MergeSources(groundingSources, l)
  /\ \A i \in DOMAIN groundingSources : \A ti \in (Titles \ {""}) \cup {"Untitled Source"} :
       LET u == groundingSources[i].uri
           r == MergeSources(groundingSources, << [title |-> ti, uri |-> u] >>)
       IN /\ Cardinality({j \in DOMAIN r : r[j].uri = u}) = 1
          /\ [title |-> ti, uri |-> u] \in Range(r)
          /\ \A j \in DOMAIN groundingSources :
               groundingSources[j].uri # u => groundingSources[j] \in Range(r)

\* Two sources were merged twice, and then the first one under a new title.
DedupWitness ==
  /\ nMsg = 3
  /\ lastEvent.op = "message"
  /\ lastEvent.sources = << [title |-> "X", uri |-> "A"], [title |-> "X", uri |-> "B"] >>
  /\ lastEvent.merged = << [title |-> "Z", uri |-> "A"] >>
  /\ Len(groundingSources) = 2
  /\ [title |-> "Z", uri |-> "A"] \in Range(groundingSources)
  /\ [title |-> "X", uri |-> "B"] \in Range(groundingSources)

\* The sessions that acquired a microphone stream and audio contexts.
Acquired == {s \in SessionIds : sess[s].pc = "running"}

\* C5. Teardown completeness: when stopSession has run, the microphone stream
\* of every session is released and both of its audio contexts are closed,
\* and over the life of a session each context is closed exactly once (a
\* second stop closes nothing again).
TeardownCompleteness ==
  /\ \A s \in SessionIds : sess[s].closeIn <= 1 /\ sess[s].closeOut <= 1
  /\ lastEvent.op \in {"stop", "error"}
       => \A s \in Acquired :
            /\ sess[s].stream # "live"
            /\ sess[s].ctxIn = "closed" /\ sess[s].closeIn = 1
            /\ sess[s].ctxOut = "closed" /\ sess[s].closeOut = 1

\* C6. Mute gating: a captured frame is sent if and only if the mute flag is
\* off when the frame is captured.
MuteGating ==
  lastEvent.op = "frame" => (lastEvent.sent <=> ~lastEvent.muted)

\* C7. Remote close: when onclose has run for an open session, its microphone
\* stream is released, both of its audio contexts are closed and no playback
\* handle is left in the active set; no frame captured later is sent.
RemoteCloseTeardown ==
  /\ (lastEvent.op = "close" /\ lastEvent.remote)
       => ( /\ sess[lastEvent.sess].stream # "live"
            /\ sess[lastEvent.sess].ctxIn = "closed"
            /\ sess[lastEvent.sess].ctxOut = "closed"
            /\ audioSourcesRef = {} )
  /\ (lastEvent.op = "frame" /\ lastEvent.conn = "closed") => ~lastEvent.sent

\* C8. Connection error: when onerror has run for a session, the component is
\* not active, the audio contexts of that session are closed, the active set
\* is empty, the connection of that session is not open or pending, and the
\* connection error message is the one held.
ErrorTeardown ==
  lastEvent.op = "error"
    => ( /\ ~isActive
         /\ lastEvent.sess \in Acquired
         /\ sess[lastEvent.sess].ctxIn = "closed"
         /\ sess[lastEvent.sess].ctxOut = "closed"
         /\ audioSourcesRef = {}
         /\ sess[lastEvent.sess].conn \notin {"connecting", "open"}
         /\ error = "conn" )

\* C9. Single session: at most one connection is pending or open, and at most
\* one session has an audio context that is not closed.
SingleSession ==
  /\ Cardinality({s \in SessionIds : sess[s].conn \in {"connecting", "open"}}) <= 1
  /\ Cardinality({s \in SessionIds :
                    sess[s].ctxIn = "running" \/ sess[s].ctxOut = "running"}) <= 1

\* C10. In-order processing: when the handler of a message runs to its end, no
\* handler of a message delivered earlier to the same session is still
\* waiting to apply its effects.
InOrderProcessing ==
  lastEvent.op = "message"
    => \A h \in suspended : h.sess = lastEvent.sess => h.seq > lastEvent.seq

\* C11. Failure-tolerant teardown: stopSession never leaves by an exception,
\* and when one release step failed every other step was still attempted:
\* both contexts closed, the active set emptied, the close of the connection
\* requested and the promise ref cleared.
TeardownFailureTolerance ==
  /\ lastEvent.op # "stopThrew"
  /\ lastEvent.op \in {"stop", "stopThrew"}
       => ( /\ \A s \in Acquired :
                 /\ (lastEvent.op = "stop" \/ lastEvent.step # "closeIn")
                      => sess[s].ctxIn = "closed"
                 /\ (lastEvent.op = "stop" \/ lastEvent.step # "closeOut")
                      => sess[s].ctxOut = "closed"
                 /\ sess[s].conn # "open"
            /\ (lastEvent.op = "stop" \/ lastEvent.step # "stop") => audioSourcesRef = {}
            /\ sessionPromiseRef = NoSession )

\* C12. Microphone denial: when getUserMedia was rejected, the component is
\* idle (not active, no audio stream held), the start created no audio
\* context and opened no connection, the microphone message is the one held,
\* and the start is over (no retry).
MicrophoneDenial ==
  lastEvent.op = "denied"
    => ( /\ ~isActive
         /\ audioStream = NoSession
         /\ sess[lastEvent.sess].stream = "none"
         /\ sess[lastEvent.sess].ctxIn = "none"
         /\ sess[lastEvent.sess].ctxOut = "none"
         /\ sess[lastEvent.sess].conn = "none"
         /\ sess[lastEvent.sess].pc = "denied"
         /\ error = "mic" )

\* C13. Decode errors are contained: when the decode of a message's audio
\* payload failed, the other fields of that message were still routed: with
\* the interruption flag the active set is empty and the cursor 0, with the
\* turn-complete flag the buffers are empty, and a fragment without the
\* turn-complete flag is in its buffer.
DecodeErrorContained ==
  lastEvent.op = "decodeFail"
    => ( /\ lastEvent.intr => (audioSourcesRef = {} /\ nextStartTimeRef = 0)
         /\ lastEvent.turn => ( /\ currentInputTranscriptionRef = << >>
                                /\ currentOutputTranscriptionRef = << >> )
         /\ (~lastEvent.turn /\ lastEvent.text # << >>)
              => currentInputTranscriptionRef \o currentOutputTranscriptionRef # << >> )

\* C14. Cursor monotonicity: in every step the cursor does not decrease,
\* unless the step is the handler of a message with the interruption flag or
\* the start of a new session (getUserMedia resolved); stop, error and close
\* do not lower it.
CursorMonotonicity ==
  [][ \/ nextStartTimeRef' >= nextStartTimeRef
      \/ (lastEvent'.op = "message" /\ lastEvent'.intr)
      \/ \E s \in SessionIds : sess[s].pc = "getUserMedia" /\ sess'[s].pc = "running"
    ]_vars

\* The cursor was raised by one chunk and raised again by the next.
CursorWitness ==
  /\ lastEvent.op = "message"
  /\ lastEvent.start >= 0
  /\ lastEvent.cursor > 0
  /\ nextStartTimeRef > lastEvent.cursor

\* C15. Citation uniqueness: the citation list holds at most one entry per
\* URI, in every state.
CitationUniqueness ==
  \A i, j \in DOMAIN groundingSources :
    groundingSources[i].uri = groundingSources[j].uri => i = j

\* A message whose list repeated one URI was merged into a list that held
\* that URI and another one.
CitationUniquenessWitness ==
  /\ lastEvent.op = "message"
  /\ Len(lastEvent.merged) = 2
  /\ lastEvent.merged[1].uri = lastEvent.merged[2].uri
  /\ Len(lastEvent.sources) = 2
  /\ Len(groundingSources) = 2

UrisOf(l) == [i \in DOMAIN l |-> l[i].uri]

\* The title of the last source of list l with URI u.
LastTitle(l, u) ==
  l[CHOOSE i \in DOMAIN l : l[i].uri = u /\ \A j \in DOMAIN l : l[j].uri = u => j <= i].title

PositionOf(l, u) == CHOOSE i \in DOMAIN l : l[i].uri = u

\* C16 (as stated). Merge position policy: when a merge contains a URI that
\* is in the list already, its entry takes the title of the later occurrence
\* and moves: it comes after every entry whose URI is not in the merge.
MergePositionMoves ==
  (lastEvent.op = "message" /\ lastEvent.merged # << >>)
    => \A u \in Range(UrisOf(lastEvent.sources)) \cap Range(UrisOf(lastEvent.merged)) :
         /\ [title |-> LastTitle(lastEvent.merged, u), uri |-> u] \in Range(groundingSources)
         /\ \A v \in Range(UrisOf(lastEvent.sources)) \ Range(UrisOf(lastEvent.merged)) :
              PositionOf(groundingSources, v) < PositionOf(groundingSources, u)

\* C16 (amended). When a merge contains a URI that is in the list already,
\* its entry takes the title of the later occurrence and keeps its position;
\* every other entry of the list keeps its position and its title.
MergePositionKept ==
  (lastEvent.op = "message" /\ lastEvent.merged # << >>)
    => \A i \in DOMAIN lastEvent.sources :
         /\ i \in DOMAIN groundingSources
         /\ groundingSources[i].uri = lastEvent.sources[i].uri
         /\ groundingSources[i].title =
              IF lastEvent.sources[i].uri \in Range(UrisOf(lastEvent.merged))
                THEN LastTitle(lastEvent.merged, lastEvent.sources[i].uri)
                ELSE lastEvent.sources[i].title

\* The first of two entries was merged again under another title: it is
\* still the first, under the new title.
MergePositionWitness ==
  /\ lastEvent.op = "message"
  /\ Len(lastEvent.sources) = 2
  /\ Len(lastEvent.merged) = 1
  /\ lastEvent.merged[1].uri = lastEvent.sources[1].uri
  /\ lastEvent.merged[1].title # lastEvent.sources[1].title
  /\ groundingSources = << lastEvent.merged[1], lastEvent.sources[2] >>

\* The URIs of us in the order of their first appearance.
RECURSIVE FirstSeen(_)
FirstSeen(us) ==
  IF us = << >> THEN << >>
  ELSE LET front == FirstSeen(SubSeq(us, 1, Len(us) - 1))
       IN IF us[Len(us)] \in Range(front) THEN front ELSE Append(front, us[Len(us)])

\* C17. First-appearance order: after every merge the URIs of the citation
\* list are those of the list before followed by the new URIs of the merge,
\* each in the order of its first appearance; a source with a URI seen
\* before leaves the order of the list as it is.
FirstAppearanceOrder ==
  /\ UrisOf(groundingSources) = FirstSeen(UrisOf(groundingSources))
  /\ (lastEvent.op = "message" /\ lastEvent.merged # << >>)
       => UrisOf(groundingSources)
            = FirstSeen(UrisOf(lastEvent.sources) \o UrisOf(lastEvent.merged))

\* Two URIs came back in the opposite order: the list keeps the first order.
FirstAppearanceWitness ==
  /\ lastEvent.op = "message"
  /\ Len(lastEvent.sources) = 2
  /\ Len(lastEvent.merged) = 2
  /\ lastEvent.merged[1].uri = lastEvent.sources[2].uri
  /\ lastEvent.merged[2].uri = lastEvent.sources[1].uri
  /\ UrisOf(groundingSources) = UrisOf(lastEvent.sources)

IsPrefix(a, b) == Len(a) <= Len(b) /\ SubSeq(b, 1, Len(a)) = a

\* The transcript with the appends React has still to apply.
TranscriptLen == Len(entries) + Len(entriesQueue)

\* C18. Append-only transcript: in every step (a message, the mute button,
\* stop, error, close, a new start, a render) the transcript before is a
\* prefix of the transcript after and no append is lost; it grows only in the
\* handler of a message with the turn-complete flag, by one entry per role
\* whose buffer was non-empty then.
TranscriptAppendOnly ==
  [][ /\ IsPrefix(entries, entries')
      /\ TranscriptLen' >= TranscriptLen
      /\ TranscriptLen' > TranscriptLen
           => ( /\ lastEvent'.op = "message"
                /\ lastEvent'.turn
                /\ TranscriptLen' - TranscriptLen = Len(turnLog') - Len(turnLog)
                /\ \A i \in (Len(turnLog) + 1) .. Len(turnLog') : turnLog'[i].text # << >> )
    ]_vars

\* A transcript of a user entry and an assistant entry has outlived a stop
\* and the start of the next session, with the microphone muted.
TranscriptWitness ==
  /\ Len(entries) = 2
  /\ entries[1].role = "user"
  /\ entries[2].role = "assistant"
  /\ sess[1].conn = "closed"
  /\ sess[2].pc = "running"
  /\ isMuted

\* C19. Stop closes the connection: when stopSession has run (End Session or
\* onerror), every connection a start had requested and that is not closed
\* yet is closed in the end, also one that was still pending.
StopClosesConnection ==
  \A s \in SessionIds :
    (lastEvent.op \in {"stop", "error"}
       /\ sess[s].conn \in {"connecting", "open", "closing", "failed"})
      ~> (sess[s].conn = "closed")

\* C20. No playback after stop: a chunk is scheduled only on an output
\* context stopSession has not closed, and every handle of the active set
\* belongs to such a context: after a stop nothing is started or added to
\* the set, and the cursor is not advanced, until a new start.
NoPlaybackAfterStop ==
  /\ (lastEvent.op = "message" /\ lastEvent.start >= 0)
       => sess[lastEvent.sess].ctxOut = "running"
  /\ \A src \in audioSourcesRef : sess[src.sess].ctxOut = "running"

\* C21. Barge-in flushes earlier audio: once the handler of a message with
\* the interruption flag has run, the active set holds no chunk of a message
\* delivered before that message, and a chunk scheduled afterwards is of a
\* message delivered after it.
BargeInFlush ==
  /\ prevChunk.kind = "interrupted"
       => \A src \in audioSourcesRef : src.seq > prevChunk.seq
  /\ (lastEvent.op = "message" /\ lastEvent.start >= 0
        /\ lastEvent.prev.kind = "interrupted")
       => lastEvent.seq > lastEvent.prev.seq
====
